---- MODULE Spec2Model ----
(***************************************************************************)
(* Model of api_etl.py: a three-stage batch pipeline                       *)
(*   extract_data -> transform_data -> load_data, driven by run_etl.       *)
(* The remote endpoint and the database are the environment: the endpoint  *)
(* answers each GET with a page, an empty page or a failure; the database  *)
(* lets a write succeed or fail.                                           *)
(***************************************************************************)
EXTENDS Integers, Sequences, FiniteSets, TLC

VARIABLES
    pc,             \* position of run_etl: idle, extract, transform, load, done
    runs,           \* number of run_etl invocations started in this process
    params,         \* API_CONFIG['params'], the module-level dict
    all_summaries,  \* extract_data's accumulator (kept after return as history)
    http,           \* the GET requests of the current run, with their responses
    data,           \* run_etl's `data`
    cleaned_data,   \* run_etl's `cleaned_data`
    table,          \* the destination table incident_data
    tableAtStart,   \* history: the table when the current run started
    lastLoaded,     \* history: the table as the last successful load left it
    loadOutcome,    \* what load_data did in the current run
    connected,      \* whether load_data opened a database connection in this run
    crossed,        \* the stage whose exception reached run_etl, or "none"
    exit,           \* how run_etl ended: running, completed, critical
    mock            \* scripted responses of a mock endpoint (end-to-end scenario)

vars == <<pc, runs, params, all_summaries, http, data, cleaned_data, table,
          tableAtStart, lastLoaded, loadOutcome, connected, crossed, exit, mock>>

----------------------------------------------------------------------------
(* Bounds of the model *)

MaxRuns == 2
MaxPages == 1
MaxPageLen == 1
FetchMaxPages == 3
FetchMaxPageLen == 2

----------------------------------------------------------------------------
(* Cell values *)

Str(s) == [t |-> "str", s |-> s]
None == [t |-> "None"]
NaN == [t |-> "NaN"]
NaT == [t |-> "NaT"]
Timestamp(y, m, d) == [t |-> "Timestamp", y |-> y, m |-> m, d |-> d]
Number(n) == [t |-> "number", n |-> n]
Null == [t |-> "NULL"]

(* API_CONFIG['params'] *)
API_TOP == 10000
API_SKIP == 0

API_CONFIG == [top |-> API_TOP, skip |-> API_SKIP]

----------------------------------------------------------------------------
(* pandas.DataFrame *)

RECURSIVE Keys(_)
Keys(records) ==
    IF records = <<>> THEN {}
    ELSE (DOMAIN Head(records)) \cup Keys(Tail(records))

(* pd.DataFrame(list of dicts): the columns are the union of the keys; a key *)
(* a record lacks is NaN in that row.                                        *)
DataFrame(records) ==
    LET cols == Keys(records) IN
    [cols  |-> cols,
     rows  |-> [i \in 1..Len(records) |->
                  [c \in cols |-> IF c \in DOMAIN records[i]
                                  THEN records[i][c] ELSE NaN]],
     dtype |-> [c \in cols |-> "object"]]

(* pd.DataFrame() *)
EmptyDataFrame == DataFrame(<<>>)

(* df.empty: any axis of length 0 *)
IsEmpty(df) == df.cols = {} \/ Len(df.rows) = 0

----------------------------------------------------------------------------
(* EXTRACT *)

(* The exceptions the calls of the pipeline raise; all derive from Exception *)
ExtractErrors == {"ConnectionError", "HTTPError", "JSONDecodeError"}
TransformErrors == {"KeyError"}
LoadErrors == {"OperationalError", "DataError"}

(* Variant: `except requests.RequestException` in place of `except Exception` *)
CatchesRequestsOnly(stage, exc) == exc \in {"ConnectionError", "HTTPError"}

(* `except Exception` of each stage *)
Catches(stage, exc) ==
    exc \in ExtractErrors \cup TransformErrors \cup LoadErrors

(* A response of the endpoint: error = "none" is a 200 with a JSON object,  *)
(* which holds the list under 'DisasterDeclarationsSummaries' or lacks it.  *)
OkResponse(page) == [error |-> "none", haskey |-> TRUE, summaries |-> page]
NoKeyResponse == [error |-> "none", haskey |-> FALSE, summaries |-> <<>>]
ErrorResponse(e) == [error |-> e, haskey |-> FALSE, summaries |-> <<>>]

(* data.get('DisasterDeclarationsSummaries', []) *)
Summaries(resp) == IF resp.haskey THEN resp.summaries ELSE <<>>

(* Variant: the loop also ends on a page of fewer than two records *)
BreaksOnShortPage(summaries) == Len(summaries) < 2

(* `if not summaries: break` *)
LoopBreaks(summaries) == summaries = <<>>

(* Variant: the page is put in front of the accumulator *)
ExtendFront(acc, summaries) == summaries \o acc

(* all_summaries.extend(summaries) *)
Extend(acc, summaries) == acc \o summaries

(* params["$skip"] += params["$top"] *)
AdvanceSkip(p) == [p EXCEPT !.skip = p.skip + p.top]

(* One iteration of the `while True` loop of extract_data, on response resp *)
ExtractStep(resp) ==
    /\ pc = "extract"
    /\ http' = Append(http, [skip |-> params.skip, resp |-> resp])
    /\ IF resp.error # "none"
       THEN \* requests.get, raise_for_status or response.json raised
            IF Catches("extract", resp.error)
            THEN /\ data' = DataFrame(all_summaries)
                 /\ pc' = "transform"
                 /\ UNCHANGED <<all_summaries, params, crossed, exit>>
            ELSE /\ crossed' = "extract"
                 /\ exit' = "critical"
                 /\ pc' = "done"
                 /\ UNCHANGED <<all_summaries, params, data>>
       ELSE IF LoopBreaks(Summaries(resp))
            THEN /\ data' = DataFrame(all_summaries)
                 /\ pc' = "transform"
                 /\ UNCHANGED <<all_summaries, params, crossed, exit>>
            ELSE /\ all_summaries' = Extend(all_summaries, Summaries(resp))
                 /\ params' = AdvanceSkip(params)
                 /\ UNCHANGED <<pc, data, crossed, exit>>
    /\ UNCHANGED <<runs, cleaned_data, table, tableAtStart, lastLoaded,
                   loadOutcome, connected>>

----------------------------------------------------------------------------
(* TRANSFORM *)

date_columns ==
    <<"declarationDate", "incidentBeginDate", "incidentEndDate",
      "disasterCloseoutDate">>

incident_type_mapping ==
    "Tropical Storm" :> "4" @@ "Fire" :> "R" @@ "Severe Storm" :> "W" @@
    "Tornado" :> "T" @@ "Straight-Line Winds" :> "2" @@
    "Mud/Landslide" :> "M" @@ "Flood" :> "F" @@ "Hurricane" :> "H" @@
    "Biological" :> "B" @@ "Winter Storm" :> "5" @@ "Snowstorm" :> "S" @@
    "Earthquake" :> "E" @@ "Coastal Storm" :> "C" @@ "Other" :> "Z" @@
    "Severe Ice Storm" :> "O" @@ "Dam/Levee Break" :> "K" @@
    "Typhoon" :> "J" @@ "Volcanic Eruption" :> "V" @@ "Freezing" :> "G" @@
    "Toxic Substances" :> "X" @@ "Chemical" :> "L" @@ "Terrorist" :> "I" @@
    "Drought" :> "D" @@ "Human Cause" :> "Y" @@ "Fishing Losses" :> "P" @@
    "Tsunami" :> "A"

(* The date strings of the model that pandas parses, with their values; any *)
(* other string has no parse.                                               *)
IsoDates ==
    "2020-03-01T00:00:00.000Z" :> Timestamp(2020, 3, 1) @@
    "2021-08-29T00:00:00.000Z" :> Timestamp(2021, 8, 29)

Parses(v) == v.t = "str" /\ v.s \in DOMAIN IsoDates

(* pd.to_datetime(value, errors='coerce') *)
ParseDate(v) == IF Parses(v) THEN IsoDates[v.s] ELSE NaT

(* Series.astype('category'): the values stay, None becomes NaN *)
CategoryValue(v) == IF v.t = "None" THEN NaN ELSE v

(* Variant: Series.replace semantics, an unmapped value is kept *)
MapValueKeepsUnmapped(v) ==
    IF v.t = "str" /\ v.s \in DOMAIN incident_type_mapping
    THEN Str(incident_type_mapping[v.s]) ELSE v

(* Series.map(incident_type_mapping) *)
MapValue(v) ==
    IF v.t = "str" /\ v.s \in DOMAIN incident_type_mapping
    THEN Str(incident_type_mapping[v.s]) ELSE NaN

(* df[col] = values: sets or adds the column, in place *)
SetColumn(df, col, values, dtype) ==
    LET cols == df.cols \cup {col} IN
    [cols  |-> cols,
     rows  |-> [i \in 1..Len(df.rows) |->
                  [c \in cols |-> IF c = col THEN values[i]
                                  ELSE df.rows[i][c]]],
     dtype |-> [c \in cols |-> IF c = col THEN dtype ELSE df.dtype[c]]]

(* The statements of the `if not df.empty` branch that assign into df,      *)
(* lines 61-76, in order: the column each reads and what it does.           *)
NSteps == 7

StepReads(i) ==
    IF i = 1 THEN "state"
    ELSE IF i = 2 THEN "declarationType"
    ELSE IF i <= 6 THEN date_columns[i - 2]
    ELSE "incidentType"

(* Variant: errors='raise', an unparseable date string raises *)
StepRaisesOnBadDate(i, df) ==
    \/ StepReads(i) \notin df.cols
    \/ /\ i \in 3..6
       /\ \E k \in 1..Len(df.rows) :
             LET v == df.rows[k][StepReads(i)] IN v.t = "str" /\ ~Parses(v)

(* df[col] raises KeyError when df has no such column; errors='coerce' and  *)
(* map never raise on a value.                                              *)
StepRaises(i, df) == StepReads(i) \notin df.cols

ApplyStep(i, df) ==
    LET col == StepReads(i)
        n == Len(df.rows)
    IN
    IF i <= 2 THEN
        SetColumn(df, col, [k \in 1..n |-> CategoryValue(df.rows[k][col])],
                  "category")
    ELSE IF i <= 6 THEN
        SetColumn(df, col, [k \in 1..n |-> ParseDate(df.rows[k][col])],
                  "datetime64[ns]")
    ELSE
        SetColumn(df, "designatedIncidentTypes",
                  [k \in 1..n |-> MapValue(df.rows[k][col])], "object")

(* Runs the steps from i on; stops at the first one that raises *)
RECURSIVE RunSteps(_, _)
RunSteps(i, df) ==
    IF i > NSteps THEN [df |-> df, raised |-> FALSE]
    ELSE IF StepRaises(i, df) THEN [df |-> df, raised |-> TRUE]
    ELSE RunSteps(i + 1, ApplyStep(i, df))

(* str.lower on the column names of the model *)
Lower ==
    "state" :> "state" @@ "declarationType" :> "declarationtype" @@
    "declarationDate" :> "declarationdate" @@
    "incidentBeginDate" :> "incidentbegindate" @@
    "incidentEndDate" :> "incidentenddate" @@
    "disasterCloseoutDate" :> "disastercloseoutdate" @@
    "incidentType" :> "incidenttype" @@
    "lastIAFilingDate" :> "lastiafilingdate" @@
    "disasterNumber" :> "disasternumber" @@
    "designatedIncidentTypes" :> "designatedincidenttypes" @@
    "id" :> "id"

(* Variant: the column is not dropped *)
DropNothing(df, col) == df

(* df.drop(columns=['lastIAFilingDate'], errors='ignore'): a new frame *)
DropColumn(df, col) ==
    LET cols == df.cols \ {col} IN
    [cols  |-> cols,
     rows  |-> [i \in 1..Len(df.rows) |-> [c \in cols |-> df.rows[i][c]]],
     dtype |-> [c \in cols |-> df.dtype[c]]]

(* df.columns = df.columns.str.lower() *)
LowerColumns(df) ==
    LET cols == {Lower[c] : c \in df.cols}
        src(l) == CHOOSE c \in df.cols : Lower[c] = l
    IN
    [cols  |-> cols,
     rows  |-> [i \in 1..Len(df.rows) |-> [l \in cols |-> df.rows[i][src(l)]]],
     dtype |-> [l \in cols |-> df.dtype[src(l)]]]

(* transform_data(df): what it returns, the state it leaves the caller's   *)
(* frame in, and the exception it lets out (none: the try covers the body) *)
TransformResult(df) ==
    IF IsEmpty(df)
    THEN [returns |-> EmptyDataFrame, df |-> df, error |-> "none"]
    ELSE LET r == RunSteps(1, df) IN
         IF r.raised
         THEN [returns |-> EmptyDataFrame, df |-> r.df, error |-> "KeyError"]
         ELSE [returns |-> LowerColumns(DropColumn(r.df, "lastIAFilingDate")),
               df |-> r.df, error |-> "none"]

TransformData ==
    /\ pc = "transform"
    /\ LET r == TransformResult(data) IN
       /\ data' = r.df
       /\ IF r.error = "none" \/ Catches("transform", r.error)
          THEN /\ cleaned_data' = r.returns
               /\ pc' = "load"
               /\ UNCHANGED <<crossed, exit>>
          ELSE /\ crossed' = "transform"
               /\ exit' = "critical"
               /\ pc' = "done"
               /\ UNCHANGED cleaned_data
    /\ UNCHANGED <<runs, params, all_summaries, http, table, tableAtStart,
                   lastLoaded, loadOutcome, connected, mock>>

----------------------------------------------------------------------------
(* LOAD *)

(* What the database stores for a cell: a missing value is NULL *)
SqlValue(v) == IF v.t \in {"NaN", "NaT", "None"} THEN Null ELSE v

SqlRows(df) ==
    [i \in 1..Len(df.rows) |-> [c \in df.cols |-> SqlValue(df.rows[i][c])]]

NoTable == [exists |-> FALSE, cols |-> {}, rows |-> <<>>]

(* The outcomes of create_engine + to_sql: the write succeeds; the          *)
(* connection fails before anything is written; the insert fails and the    *)
(* replace is rolled back; the insert fails after the drop and create were  *)
(* committed.                                                               *)
LoadOutcomes == {"ok", "connect_error", "insert_error_rolled_back",
                 "insert_error_after_drop"}

LoadError(o) ==
    IF o = "ok" THEN "none"
    ELSE IF o = "connect_error" THEN "OperationalError" ELSE "DataError"

(* Variant: if_exists='append' *)
ToSqlAppend(df, tbl, o) ==
    IF o = "ok"
    THEN [exists |-> TRUE, cols |-> df.cols \cup tbl.cols,
          rows |-> tbl.rows \o SqlRows(df)]
    ELSE tbl

(* df.to_sql('incident_data', engine, if_exists='replace', index=False) *)
ToSql(df, tbl, o) ==
    IF o = "ok"
    THEN [exists |-> TRUE, cols |-> df.cols, rows |-> SqlRows(df)]
    ELSE IF o = "insert_error_after_drop"
    THEN [exists |-> TRUE, cols |-> df.cols, rows |-> <<>>]
    ELSE tbl

(* Variant: no emptiness check *)
LoadNeverSkips(df) == FALSE

(* `if not df.empty` of load_data *)
LoadSkips(df) == IsEmpty(df)

(* Variant: the engine is connected before the emptiness check *)
LoadConnectsAlways(df) == TRUE

(* The engine is created, and a connection opened, only inside the branch *)
LoadConnects(df) == ~LoadSkips(df)

(* load_data(cleaned_data, DATABASE_CONFIG), with the database's outcome o, *)
(* and the return of run_etl                                                *)
LoadData(o) ==
    /\ pc = "load"
    /\ connected' = LoadConnects(cleaned_data)
    /\ IF LoadSkips(cleaned_data)
       THEN /\ loadOutcome' = "skipped"
            /\ UNCHANGED <<table, lastLoaded, crossed>>
            /\ exit' = "completed"
       ELSE /\ table' = ToSql(cleaned_data, table, o)
            /\ loadOutcome' = o
            /\ lastLoaded' = IF o = "ok" THEN table' ELSE lastLoaded
            /\ IF LoadError(o) = "none" \/ Catches("load", LoadError(o))
               THEN /\ exit' = "completed"
                    /\ UNCHANGED crossed
               ELSE /\ exit' = "critical"
                    /\ crossed' = "load"
    /\ pc' = "done"
    /\ UNCHANGED <<runs, params, all_summaries, http, data, cleaned_data,
                   tableAtStart, mock>>

----------------------------------------------------------------------------
(* ETL *)

(* run_etl() is entered: extract_data(API_CONFIG['url'], API_CONFIG['params']) *)
(* receives the module-level dict itself and starts with an empty list.        *)
StartRun ==
    /\ pc \in {"idle", "done"}
    /\ runs < MaxRuns
    /\ runs' = runs + 1
    /\ pc' = "extract"
    /\ all_summaries' = <<>>
    /\ http' = <<>>
    /\ data' = EmptyDataFrame
    /\ cleaned_data' = EmptyDataFrame
    /\ tableAtStart' = table
    /\ loadOutcome' = "none"
    /\ connected' = FALSE
    /\ crossed' = "none"
    /\ exit' = "running"
    /\ UNCHANGED <<params, table, lastLoaded, mock>>

----------------------------------------------------------------------------
(* The environment: raw records, the endpoint, the database *)

ValidDate == Str("2020-03-01T00:00:00.000Z")
OtherDate == Str("2021-08-29T00:00:00.000Z")
NotADate == Str("not-a-date")
BadMonth == Str("2020-13-45T00:00:00.000Z")

(* A raw record of the API with every field the pipeline reads *)
Record(n, itype, d1, d2, d3, d4) ==
    [disasterNumber |-> Number(n), state |-> Str("TX"),
     declarationType |-> Str("DR"), declarationDate |-> d1,
     incidentBeginDate |-> d2, incidentEndDate |-> d3,
     disasterCloseoutDate |-> d4, incidentType |-> itype,
     lastIAFilingDate |-> None]

FloodRecord ==
    Record(1, Str("Flood"), ValidDate, OtherDate, None, ValidDate)

(* A record of another shape: none of the fields transform_data reads *)
BareRecord == [id |-> Str("9")]

(* A record with unparseable dates, an unmapped type, no lastIAFilingDate *)
OddRecord ==
    [disasterNumber |-> Number(2), state |-> None,
     declarationType |-> Str("EM"), declarationDate |-> NotADate,
     incidentBeginDate |-> ValidDate, incidentEndDate |-> BadMonth,
     disasterCloseoutDate |-> None, incidentType |-> Str("Alien Invasion")]

RawPool == {FloodRecord, BareRecord}

Pages(pool, maxLen) == UNION {[1..n -> pool] : n \in 1..maxLen}

Responses(maxLen) ==
    {OkResponse(p) : p \in Pages(RawPool, maxLen)}
        \cup {OkResponse(<<>>), NoKeyResponse}
        \cup {ErrorResponse(e) : e \in ExtractErrors}

NonEmptyPage(resp) == resp.error = "none" /\ Summaries(resp) # <<>>

(* The endpoint serves at most maxPages non-empty pages in a run *)
Serves(resp, maxPages) == NonEmptyPage(resp) => Len(http) < maxPages

LegacyTable ==
    [exists |-> TRUE, cols |-> {"id"}, rows |-> <<[id |-> Str("legacy")]>>]

----------------------------------------------------------------------------
(* The pipeline, run up to MaxRuns times in one process *)

Init ==
    /\ pc = "idle"
    /\ runs = 0
    /\ params = API_CONFIG
    /\ all_summaries = <<>>
    /\ http = <<>>
    /\ data = EmptyDataFrame
    /\ cleaned_data = EmptyDataFrame
    /\ table \in {NoTable, LegacyTable}
    /\ tableAtStart = table
    /\ lastLoaded = table
    /\ loadOutcome = "none"
    /\ connected = FALSE
    /\ crossed = "none"
    /\ exit = "running"
    /\ mock = <<>>

Fetch ==
    \E resp \in Responses(MaxPageLen) :
        /\ Serves(resp, MaxPages)
        /\ ExtractStep(resp)
        /\ UNCHANGED mock

Load == \E o \in LoadOutcomes : LoadData(o)

Next == StartRun \/ Fetch \/ TransformData \/ Load

Spec == Init /\ [][Next]_vars

----------------------------------------------------------------------------
(* extract_data alone, on longer page sequences *)

InitFetch ==
    /\ pc = "extract"
    /\ runs = 1
    /\ params \in {API_CONFIG, AdvanceSkip(API_CONFIG)}
    /\ all_summaries = <<>>
    /\ http = <<>>
    /\ data = EmptyDataFrame
    /\ cleaned_data = EmptyDataFrame
    /\ table = NoTable
    /\ tableAtStart = table
    /\ lastLoaded = table
    /\ loadOutcome = "none"
    /\ connected = FALSE
    /\ crossed = "none"
    /\ exit = "running"
    /\ mock = <<>>

NextFetch ==
    \E resp \in Responses(FetchMaxPageLen) :
        /\ Serves(resp, FetchMaxPages)
        /\ ExtractStep(resp)
        /\ UNCHANGED mock

SpecFetch == InitFetch /\ [][NextFetch]_vars

----------------------------------------------------------------------------
(* transform_data alone, on batches drawn from a wide set of records *)

IncidentInputs ==
    {Str(k) : k \in DOMAIN incident_type_mapping}
        \cup {Str("Alien Invasion"), Str("flood"), None}

DateInputs == {ValidDate, NotADate, BadMonth}

WideRecords ==
    {Record(7, it, d1, d2, d3, d4) :
        it \in IncidentInputs, d1 \in DateInputs, d2 \in DateInputs,
        d3 \in DateInputs, d4 \in DateInputs}

TransformInputs ==
    {<<>>, <<BareRecord>>}
        \cup {<<w>> : w \in WideRecords}
        \cup {<<w, p>> : w \in WideRecords,
                         p \in {FloodRecord, OddRecord, BareRecord}}
        \cup {<<p, w>> : w \in WideRecords,
                         p \in {FloodRecord, OddRecord, BareRecord}}

InitTransform ==
    /\ pc = "transform"
    /\ runs = 1
    /\ params = API_CONFIG
    /\ all_summaries \in TransformInputs
    /\ http = <<>>
    /\ data = DataFrame(all_summaries)
    /\ cleaned_data = EmptyDataFrame
    /\ table = NoTable
    /\ tableAtStart = table
    /\ lastLoaded = table
    /\ loadOutcome = "none"
    /\ connected = FALSE
    /\ crossed = "none"
    /\ exit = "running"
    /\ mock = <<>>

NextTransform == TransformData

SpecTransform == InitTransform /\ [][NextTransform]_vars

----------------------------------------------------------------------------
(* The end-to-end scenario: a mock endpoint serves ScenarioPages pages of   *)
(* ScenarioPageLen records and then an empty page; one record is a Flood,   *)
(* one date field of one record is "not-a-date"; the database works.        *)

ScenarioPages == 2
ScenarioPageLen == 3

ScenarioRecord(n, flood, bad) ==
    Record(n, IF n = flood THEN Str("Flood") ELSE Str("Hurricane"),
           IF n = bad[1] /\ bad[2] = 1 THEN NotADate ELSE ValidDate,
           IF n = bad[1] /\ bad[2] = 2 THEN NotADate ELSE ValidDate,
           IF n = bad[1] /\ bad[2] = 3 THEN NotADate ELSE ValidDate,
           IF n = bad[1] /\ bad[2] = 4 THEN NotADate ELSE ValidDate)

ScenarioPage(p, flood, bad) ==
    [i \in 1..ScenarioPageLen |->
        ScenarioRecord((p - 1) * ScenarioPageLen + i, flood, bad)]

ScenarioMock(flood, bad) ==
    [p \in 1..(ScenarioPages + 1) |->
        IF p <= ScenarioPages THEN OkResponse(ScenarioPage(p, flood, bad))
        ELSE OkResponse(<<>>)]

ScenarioSize == ScenarioPages * ScenarioPageLen

InitScenario ==
    /\ pc = "idle"
    /\ runs = 0
    /\ params = API_CONFIG
    /\ all_summaries = <<>>
    /\ http = <<>>
    /\ data = EmptyDataFrame
    /\ cleaned_data = EmptyDataFrame
    /\ table \in {NoTable, LegacyTable}
    /\ tableAtStart = table
    /\ lastLoaded = table
    /\ loadOutcome = "none"
    /\ connected = FALSE
    /\ crossed = "none"
    /\ exit = "running"
    /\ \E flood \in 1..ScenarioSize, n \in 1..ScenarioSize, f \in 1..4 :
          mock = ScenarioMock(flood, <<n, f>>)

StartScenario == runs = 0 /\ StartRun

MockFetch ==
    /\ mock # <<>>
    /\ ExtractStep(Head(mock))
    /\ mock' = Tail(mock)

MockLoad == LoadData("ok")

NextScenario == StartScenario \/ MockFetch \/ TransformData \/ MockLoad

SpecScenario == InitScenario /\ [][NextScenario]_vars

----------------------------------------------------------------------------
(* Properties *)

Failed(i) == http[i].resp.error # "none"
NonEmptyAt(i) ==
    /\ http[i].resp.error = "none"
    /\ http[i].resp.haskey
    /\ Len(http[i].resp.summaries) > 0
EmptyAt(i) ==
    /\ http[i].resp.error = "none"
    /\ (~http[i].resp.haskey \/ Len(http[i].resp.summaries) = 0)

RECURSIVE PagesBefore(_)
PagesBefore(k) ==
    IF k <= 1 THEN <<>>
    ELSE PagesBefore(k - 1) \o http[k - 1].resp.summaries

RECURSIVE SizesBefore(_)
SizesBefore(k) ==
    IF k <= 1 THEN 0
    ELSE SizesBefore(k - 1) + Len(http[k - 1].resp.summaries)

Missing(v) == v.t \in {"NaN", "NaT", "None"}

(* C1: when extract_data has returned and no request failed, the endpoint   *)
(* served N non-empty pages and then one empty page, N + 1 requests were    *)
(* issued, and the batch holds as many records as the N pages together; a   *)
(* further request is issued only after a non-empty page.                   *)
C1_PaginationToEmptyPage ==
    LET n == Len(http) IN
    /\ pc = "extract" => \A i \in 1..n : NonEmptyAt(i)
    /\ (pc # "extract" /\ \A i \in 1..n : ~Failed(i)) =>
          /\ n >= 1
          /\ EmptyAt(n)
          /\ \A i \in 1..(n - 1) : NonEmptyAt(i)
          /\ Len(all_summaries) = SizesBefore(n)
          /\ Len(data.rows) = SizesBefore(n)

C1_Witness ==
    /\ pc = "transform"
    /\ Len(http) = 3
    /\ \A i \in 1..3 : ~Failed(i)
    /\ Len(data.rows) = 4

(* C2: when the k-th request fails, it is the last request, extract_data    *)
(* returns, and the batch is exactly the records of pages 1..k-1 in         *)
(* page-arrival order.                                                      *)
C2_PartialOnFailure ==
    \A k \in 1..Len(http) :
        Failed(k) =>
            /\ pc = "transform"
            /\ k = Len(http)
            /\ \A i \in 1..(k - 1) : NonEmptyAt(i)
            /\ all_summaries = PagesBefore(k)
            /\ Len(data.rows) = Len(all_summaries)
            /\ \A i \in 1..Len(all_summaries) :
                  \A c \in DOMAIN all_summaries[i] :
                      data.rows[i][c] = all_summaries[i][c]

C2_Witness ==
    /\ pc = "transform"
    /\ Len(http) = 3
    /\ http[3].resp.error = "JSONDecodeError"
    /\ Len(all_summaries) = 3
    /\ all_summaries[1] # all_summaries[3]

(* C3: the first request of every run carries $skip = the configured        *)
(* initial offset.                                                          *)
C3_FirstRequestFromInitialOffset ==
    http # <<>> => http[1].skip = API_SKIP

(* C4: after load_data has written a non-empty batch without error, the     *)
(* table holds exactly the batch's columns and rows (missing values as      *)
(* NULL), whatever it held before.                                          *)
C4_FullReplace ==
    (pc = "done" /\ loadOutcome = "ok") =>
        /\ table.exists
        /\ table.cols = cleaned_data.cols
        /\ Len(table.rows) = Len(cleaned_data.rows)
        /\ \A i \in 1..Len(cleaned_data.rows) :
              /\ DOMAIN table.rows[i] = cleaned_data.cols
              /\ \A c \in cleaned_data.cols :
                    table.rows[i][c] =
                        IF Missing(cleaned_data.rows[i][c]) THEN Null
                        ELSE cleaned_data.rows[i][c]

C4_Witness ==
    /\ pc = "done"
    /\ loadOutcome = "ok"
    /\ runs = 2
    /\ tableAtStart.exists
    /\ tableAtStart.rows # <<>>
    /\ tableAtStart.cols # table.cols

(* C5: load_data on an empty batch leaves the table as it was and opens no  *)
(* connection.                                                              *)
C5_EmptyBatchNoWrite ==
    [][(pc = "load" /\ (cleaned_data.cols = {} \/ cleaned_data.rows = <<>>))
          => (table' = table /\ ~connected')]_vars

C5_Witness ==
    /\ pc = "done"
    /\ loadOutcome = "skipped"
    /\ cleaned_data.rows = <<>>
    /\ table = LegacyTable
    /\ ~connected

ExpectedFields ==
    {"state", "declarationType", "incidentType"}
        \cup {date_columns[i] : i \in 1..Len(date_columns)}

CarryExpectedFields(records) ==
    \A k \in 1..Len(records) : ExpectedFields \subseteq DOMAIN records[k]

Malformed(v) == v \in {NotADate, BadMonth}
WellFormed(v) == v \in {ValidDate, OtherDate}

(* C6: transform_data lets no exception out; on a non-empty batch whose     *)
(* records carry the expected fields the output has as many records as the  *)
(* input, a malformed date is NaT and an unmapped incidentType gives NaN in *)
(* that field of that record, and the well-formed dates and mapped types of *)
(* the batch are not turned into missing values.                            *)
C6_FieldFailuresDoNotAbort ==
    /\ crossed = "none"
    /\ (pc # "transform" /\ all_summaries # <<>>
            /\ CarryExpectedFields(all_summaries)) =>
          /\ pc = "load"
          /\ Len(cleaned_data.rows) = Len(all_summaries)
          /\ \A k \in 1..Len(all_summaries) :
                LET raw == all_summaries[k]
                    out == cleaned_data.rows[k]
                IN
                /\ \A i \in 1..Len(date_columns) :
                      LET f == date_columns[i] IN
                      /\ Malformed(raw[f]) => out[Lower[f]] = NaT
                      /\ WellFormed(raw[f]) => out[Lower[f]].t = "Timestamp"
                /\ out["incidenttype"] = raw["incidentType"]
                /\ raw["incidentType"] \in {Str("Alien Invasion"), Str("flood")}
                      => out["designatedincidenttypes"] = NaN
                /\ raw["incidentType"] \in {Str("Flood"), Str("Tsunami")}
                      => out["designatedincidenttypes"].t = "str"

C6_Witness ==
    /\ pc = "load"
    /\ Len(cleaned_data.rows) = 2
    /\ CarryExpectedFields(all_summaries)
    /\ all_summaries[1]["incidentEndDate"] = NotADate
    /\ all_summaries[1]["declarationDate"] = ValidDate
    /\ all_summaries[1]["incidentType"] = Str("Alien Invasion")
    /\ cleaned_data.rows[1]["incidentenddate"] = NaT
    /\ cleaned_data.rows[2]["incidentbegindate"] = Timestamp(2021, 8, 29)

(* The table of section 4.2 of the specification *)
ListedCodes ==
    "Tropical Storm" :> "4" @@ "Fire" :> "R" @@ "Severe Storm" :> "W" @@
    "Tornado" :> "T" @@ "Straight-Line Winds" :> "2" @@
    "Mud/Landslide" :> "M" @@ "Flood" :> "F" @@ "Hurricane" :> "H" @@
    "Biological" :> "B" @@ "Winter Storm" :> "5" @@ "Snowstorm" :> "S" @@
    "Earthquake" :> "E" @@ "Coastal Storm" :> "C" @@ "Other" :> "Z" @@
    "Severe Ice Storm" :> "O" @@ "Dam/Levee Break" :> "K" @@
    "Typhoon" :> "J" @@ "Volcanic Eruption" :> "V" @@ "Freezing" :> "G" @@
    "Toxic Substances" :> "X" @@ "Chemical" :> "L" @@ "Terrorist" :> "I" @@
    "Drought" :> "D" @@ "Human Cause" :> "Y" @@ "Fishing Losses" :> "P" @@
    "Tsunami" :> "A"

(* C7: in every record of a transformed batch, designatedincidenttypes is   *)
(* the listed code of the record's incidentType when that is one of the 26  *)
(* keys, and the missing marker for every other value.                      *)
C7_MappingTotal ==
    /\ Cardinality(DOMAIN ListedCodes) = 26
    /\ (pc = "load" /\ cleaned_data.rows # <<>>) =>
          \A k \in 1..Len(cleaned_data.rows) :
              LET it == cleaned_data.rows[k]["incidenttype"] IN
              cleaned_data.rows[k]["designatedincidenttypes"] =
                  IF it.t = "str" /\ it.s \in DOMAIN ListedCodes
                  THEN Str(ListedCodes[it.s]) ELSE NaN

C7_Witness ==
    /\ pc = "load"
    /\ Len(cleaned_data.rows) = 2
    /\ cleaned_data.rows[1]["incidenttype"] = Str("Tsunami")
    /\ cleaned_data.rows[1]["designatedincidenttypes"] = Str("A")
    /\ cleaned_data.rows[2]["incidenttype"] = Str("Alien Invasion")
    /\ cleaned_data.rows[2]["designatedincidenttypes"] = NaN

ValidFrame(df) ==
    \A i \in 1..Len(df.rows) : DOMAIN df.rows[i] = df.cols

(* C8: no exception of a stage reaches run_etl: after any fetch,            *)
(* transformation or load failure the stage hands a valid frame to the next *)
(* one, and run_etl ends normally.                                          *)
C8_NoFailureCrossesStage ==
    /\ crossed = "none"
    /\ exit # "critical"
    /\ pc \in {"transform", "load", "done"} => ValidFrame(data)
    /\ pc \in {"load", "done"} => ValidFrame(cleaned_data)
    /\ pc = "done" => exit = "completed"

C8_Witness ==
    /\ pc = "done"
    /\ exit = "completed"
    /\ Failed(Len(http))
    /\ loadOutcome = "connect_error"

(* C9: in the end-to-end scenario the run leaves a table of 6 rows          *)
(* (ScenarioPages * ScenarioPageLen), the Flood record's                    *)
(* designatedincidenttypes is "F", the "not-a-date" field is missing (NaT   *)
(* in the batch, NULL in the table), and there is no lastiafilingdate       *)
(* column.                                                                  *)
C9_EndToEnd ==
    pc = "done" =>
        /\ loadOutcome = "ok"
        /\ Len(http) = ScenarioPages + 1
        /\ Len(table.rows) = ScenarioSize
        /\ "lastiafilingdate" \notin table.cols
        /\ "lastIAFilingDate" \notin table.cols
        /\ \A k \in 1..ScenarioSize :
              /\ all_summaries[k]["incidentType"] = Str("Flood") =>
                    /\ cleaned_data.rows[k]["designatedincidenttypes"] = Str("F")
                    /\ table.rows[k]["designatedincidenttypes"] = Str("F")
              /\ \A i \in 1..Len(date_columns) :
                    all_summaries[k][date_columns[i]] = NotADate =>
                       /\ cleaned_data.rows[k][Lower[date_columns[i]]] = NaT
                       /\ table.rows[k][Lower[date_columns[i]]] = Null

C9_Witness ==
    /\ pc = "done"
    /\ Len(table.rows) = 6
    /\ all_summaries[2]["incidentType"] = Str("Flood")
    /\ all_summaries[5]["incidentEndDate"] = NotADate
    /\ table.rows[2]["designatedincidenttypes"] = Str("F")
    /\ table.rows[5]["incidentenddate"] = Null

(* C10, as stated: a run in which the Loader does not write leaves the      *)
(* table in the state the last successful run left.                         *)
C10_LeftByLastSuccessfulRun ==
    (pc = "done" /\ loadOutcome = "skipped") => table = lastLoaded

(* C10, amended: a run in which the Loader does not write leaves the table  *)
(* as it was when the run started, and the table changes only in load_data  *)
(* called with a non-empty batch.                                           *)
C10_OnlyLoaderChangesTable ==
    /\ []((pc = "done" /\ loadOutcome = "skipped") => table = tableAtStart)
    /\ [][table' # table =>
            (pc = "load" /\ cleaned_data.cols # {} /\ cleaned_data.rows # <<>>)]_vars

C10_Witness ==
    /\ pc = "done"
    /\ loadOutcome = "skipped"
    /\ runs = 2
    /\ all_summaries # <<>>
    /\ table = tableAtStart
    /\ table # lastLoaded

====
